---- MODULE Spec2Model ----
(***************************************************************************)
(* Column of the trace processor database (src/trace_processor/db/         *)
(* column.h): a typed, optionally nullable list of cells viewed through    *)
(* a RowMap, with Get, IndexOf, FilterInto and StableSort.                 *)
(*                                                                         *)
(* Indices are 0-based as in the source.  A RowMap is a sequence of        *)
(* indices; RowMap position k (0-based) is element k + 1 of the sequence.  *)
(***************************************************************************)
EXTENDS Integers, Sequences, FiniteSets, TLC

\* Number of slots of the backing SparseVector (and of the table an id
\* column ranges over).
StorageSize == 3

\* Longest index vector handed to StableSort.
MaxOut == 3

\* Most ORDER BY terms of one query.
MaxTerms == 2

\* Column::Flag
kNoFlag == 0
kSorted == 1
kNonNull == 2

\* Integers wider than the checker's are kept exactly as a pair <<h, l>>
\* that stands for h * 2^16 + l, with 0 <= l < 2^16.  An int64_t has any h;
\* a uint32_t has 0 <= h < 2^16, so that widening it to int64_t changes
\* nothing.
Limb == 2^16

ToInt(n) == <<n \div Limb, n % Limb>>

IntLt(a, b) == a[1] < b[1] \/ (a[1] = b[1] /\ a[2] < b[2])
IntLe(a, b) == a = b \/ IntLt(a, b)
IntGt(a, b) == IntLt(b, a)
IntGe(a, b) == IntLe(b, a)

\* static_cast<uint32_t>(int64_t): the low 32 bits.
static_cast_uint32(v) == <<v[1] % Limb, v[2]>>

\* 2^32 + 1, which is 1 once narrowed to uint32_t.
TwoTo32Plus1 == <<Limb, 1>>

ColumnType == {"kInt32", "kUint32", "kInt64", "kString", "kId"}

FilterOp == {"kEq", "kNe", "kGt", "kLt", "kGe", "kLe", "kIsNull", "kIsNotNull", "kLike"}

VARIABLES
    type_,          \* ColumnType of the column
    flags_,         \* bit set of Column::Flag
    sparse_vector_, \* backing storage: slot index -> optional cell
    row_map,        \* the owning table's RowMap: row -> slot index
    undef,          \* what a GetNonNull read of a null slot finds in memory
    rm,             \* the RowMap a query narrows with FilterInto
    out,            \* the index vector a query orders with StableSort
    ret,            \* value returned by the last Get / IndexOf
    last,           \* the last operation and its arguments
    fault,          \* the last operation read a null slot through GetNonNull
    pc,             \* "ready", or "aborted" once a precondition check fired
    order_by        \* the ORDER BY terms a query has finished: row keys and direction

vars == <<type_, flags_, sparse_vector_, row_map, undef, rm, out, ret, last, fault, pc, order_by>>

column == <<type_, flags_, sparse_vector_, row_map, undef>>

-----------------------------------------------------------------------------
(* base::Optional<T> *)

\* The empty optional row number.
nullopt == [has_value |-> FALSE, value |-> 0]

\* The empty optional cell.
NullCell == [has_value |-> FALSE, value |-> ToInt(0)]

make_optional(v) == [has_value |-> TRUE, value |-> v]

\* Optional<T> compared with a plain value: an empty optional is smaller
\* than every value.
OptLt(o, v) == IF o.has_value THEN IntLt(o.value, v) ELSE TRUE
OptEq(o, v) == IF o.has_value THEN o.value = v ELSE FALSE
OptGt(o, v) == IF o.has_value THEN IntGt(o.value, v) ELSE FALSE
OptNe(o, v) == IF o.has_value THEN o.value # v ELSE TRUE
OptLe(o, v) == IF o.has_value THEN IntLe(o.value, v) ELSE TRUE
OptGe(o, v) == IF o.has_value THEN IntGe(o.value, v) ELSE FALSE

\* Optional<T> compared with Optional<T>.
OptOptLt(a, b) ==
    IF ~b.has_value THEN FALSE
    ELSE IF ~a.has_value THEN TRUE
    ELSE IntLt(a.value, b.value)

-----------------------------------------------------------------------------
(* StringPool and NullTermStringView *)

NullView == [null |-> TRUE, chars |-> << >>]

View(chars) == [null |-> FALSE, chars |-> chars]

\* The interned strings: id 0 is the null string, 1 is "a", 2 is "ab".
StringPoolGet(id) ==
    CASE id = 0 -> NullView
      [] id = 1 -> View(<<97>>)
      [] id = 2 -> View(<<97, 98>>)

StringIds == {0, 1, 2}

RECURSIVE LexLess(_, _)
LexLess(a, b) ==
    IF b = << >> THEN FALSE
    ELSE IF a = << >> THEN TRUE
    ELSE IF Head(a) # Head(b) THEN Head(a) < Head(b)
    ELSE LexLess(Tail(a), Tail(b))

\* Lexicographic byte order; the null view is below every stored view.
ViewLt(a, b) ==
    IF b.null THEN FALSE
    ELSE IF a.null THEN TRUE
    ELSE LexLess(a.chars, b.chars)
ViewEq(a, b) == a = b
ViewGt(a, b) == ViewLt(b, a)
ViewNe(a, b) == ~ViewEq(a, b)
ViewLe(a, b) == ~ViewLt(b, a)
ViewGe(a, b) == ~ViewLt(a, b)

-----------------------------------------------------------------------------
(* SqlValue *)

SqlNull == [type |-> "kNull", long_value |-> ToInt(0), string_value |-> NullView]

SqlLong(v) == [type |-> "kLong", long_value |-> v, string_value |-> NullView]

SqlString(view) == [type |-> "kString", long_value |-> ToInt(0), string_value |-> view]

\* Same type and same content; null equals nothing, itself included.
SqlValueEq(a, b) ==
    /\ a.type = b.type
    /\ CASE a.type = "kNull" -> FALSE
         [] a.type = "kLong" -> a.long_value = b.long_value
         [] a.type = "kString" -> a.string_value = b.string_value

TypeRank(t) == CASE t = "kNull" -> 0 [] t = "kLong" -> 1 [] t = "kString" -> 3

\* Null is below every non-null value.
SqlValueLt(a, b) ==
    IF a.type # b.type THEN TypeRank(a.type) < TypeRank(b.type)
    ELSE CASE a.type = "kNull" -> FALSE
           [] a.type = "kLong" -> IntLt(a.long_value, b.long_value)
           [] a.type = "kString" -> ViewLt(a.string_value, b.string_value)

-----------------------------------------------------------------------------
(* RowMap *)

RowMapSize(m) == Len(m)

RowMapGet(m, k) == m[k + 1]

\* idx is a uint32_t.
RowMapIndexOf(m, idx) ==
    IF \E k \in 0..(Len(m) - 1) : ToInt(m[k + 1]) = idx
    THEN make_optional(CHOOSE k \in 0..(Len(m) - 1) : ToInt(m[k + 1]) = idx)
    ELSE nullopt

\* RowMap(start, end): the rows start, start + 1, ..., end - 1.
RowMapRange(start, end) == [i \in 1..(IF end > start THEN end - start ELSE 0) |-> start + i - 1]

RowMapSingleRow(row) == <<row>>

RowMapEmpty == << >>

SeqRange(s) == {s[i] : i \in 1..Len(s)}

\* Keeps the indices present in both, in the order of m.
RowMapIntersect(m, other) == SelectSeq(m, LAMBDA x : x \in SeqRange(other))

\* this.FilterInto(out, p): keeps the rows k of out with p(this.Get(k)).
\* The predicate p is given as the set of the indices of this it accepts.
RowMapFilterInto(this, o, p) == SelectSeq(o, LAMBDA k : RowMapGet(this, k) \in p)

-----------------------------------------------------------------------------
(* Column: accessors *)

IsId == type_ = "kId"

IsNullable == (flags_ \div kNonNull) % 2 = 0

IsSorted == (flags_ \div kSorted) % 2 # 0

type ==
    CASE type_ \in {"kInt32", "kUint32", "kInt64", "kId"} -> "kLong"
      [] type_ = "kString" -> "kString"

\* SparseVector<T>::Get
SparseVectorGet(idx) == sparse_vector_[idx]

\* SparseVector<T>::GetNonNull: the slot's value; on a null slot the read is
\* undefined and yields whatever the memory holds.
SparseVectorGetNonNull(idx) ==
    IF sparse_vector_[idx].has_value THEN sparse_vector_[idx].value ELSE undef[idx]

\* GetNonNull(idx) is called outside its precondition.
NullSlot(idx) == ~sparse_vector_[idx].has_value

GetStringPoolStringAtIdx(idx) == StringPoolGet(SparseVectorGetNonNull(idx))

GetAtIdx(idx) ==
    CASE type_ \in {"kInt32", "kUint32", "kInt64"} ->
           IF SparseVectorGet(idx).has_value
           THEN SqlLong(SparseVectorGet(idx).value)
           ELSE SqlNull
      [] type_ = "kString" ->
           IF GetStringPoolStringAtIdx(idx).null
           THEN SqlNull
           ELSE SqlString(GetStringPoolStringAtIdx(idx))
      [] type_ = "kId" -> SqlLong(ToInt(idx))

Get(row) == GetAtIdx(RowMapGet(row_map, row))

Rows == 0..(RowMapSize(row_map) - 1)

-----------------------------------------------------------------------------
(* Column::IndexOf *)

\* The linear scan of the numeric and string columns: the first row whose
\* value equals the given one.
IndexOfScan(value) ==
    IF \E i \in Rows : SqlValueEq(Get(i), value)
    THEN make_optional(CHOOSE i \in Rows :
             /\ SqlValueEq(Get(i), value)
             /\ \A j \in Rows : j < i => ~SqlValueEq(Get(j), value))
    ELSE nullopt

IndexOf(value) ==
    IF type_ \in {"kInt32", "kUint32", "kInt64", "kString"}
    THEN IndexOfScan(value)
    ELSE IF value.type # "kLong"
         THEN nullopt
         ELSE RowMapIndexOf(row_map, static_cast_uint32(value.long_value))

-----------------------------------------------------------------------------
(* Column::Iterator with std::lower_bound / std::upper_bound *)

\* Iterator::operator*
IteratorDeref(row) == Get(row)

\* std::lower_bound(first, first + len, value): halves the range, going
\* right while *mid < value.
RECURSIVE lower_bound(_, _, _)
lower_bound(first, len, value) ==
    IF len <= 0 THEN first
    ELSE LET half == len \div 2
             mid == first + half
         IN  IF SqlValueLt(IteratorDeref(mid), value)
             THEN lower_bound(mid + 1, len - half - 1, value)
             ELSE lower_bound(first, half, value)

\* std::upper_bound(first, first + len, value): halves the range, going
\* left while value < *mid.
RECURSIVE upper_bound(_, _, _)
upper_bound(first, len, value) ==
    IF len <= 0 THEN first
    ELSE LET half == len \div 2
             mid == first + half
         IN  IF SqlValueLt(value, IteratorDeref(mid))
             THEN upper_bound(first, half, value)
             ELSE upper_bound(mid + 1, len - half - 1, value)

-----------------------------------------------------------------------------
(* Column::FilterInto *)

\* FilterIntoIdEq with the found row assigned to the RowMap instead of
\* intersected into it.
FilterIntoIdEq_Assigned(value, m) ==
    LET opt_idx == IndexOf(value)
    IN  IF opt_idx.has_value
        THEN RowMapSingleRow(opt_idx.value)
        ELSE RowMapEmpty

\* The equality constraint on an id column: the single row with the id.
FilterIntoIdEq(value, m) ==
    LET opt_idx == IndexOf(value)
    IN  IF opt_idx.has_value
        THEN RowMapIntersect(m, RowMapSingleRow(opt_idx.value))
        ELSE RowMapIntersect(m, RowMapEmpty)

SortedOps == {"kEq", "kLe", "kLt", "kGe", "kGt"}

\* FilterIntoSorted with the bounds of the search taken as positions in
\* the RowMap being narrowed instead of rows of the column.
FilterIntoSorted_Positions(op, value, m) ==
    LET size == RowMapSize(row_map)
        lb == lower_bound(0, size, value)
        ub == upper_bound(0, size, value)
        Cut(start, end) == SubSeq(m, start + 1, IF end < Len(m) THEN end ELSE Len(m))
    IN  CASE op = "kEq" -> Cut(lb, ub)
          [] op = "kLe" -> Cut(0, ub)
          [] op = "kLt" -> Cut(0, lb)
          [] op = "kGe" -> Cut(lb, size)
          [] op = "kGt" -> Cut(ub, size)

\* The binary search on a sorted column.
FilterIntoSorted(op, value, m) ==
    LET size == RowMapSize(row_map)
        lb == lower_bound(0, size, value)
        ub == upper_bound(0, size, value)
    IN  CASE op = "kEq" -> RowMapIntersect(m, RowMapRange(lb, ub))
          [] op = "kLe" -> RowMapIntersect(m, RowMapRange(0, ub))
          [] op = "kLt" -> RowMapIntersect(m, RowMapRange(0, lb))
          [] op = "kGe" -> RowMapIntersect(m, RowMapRange(lb, size))
          [] op = "kGt" -> RowMapIntersect(m, RowMapRange(ub, size))

\* The predicate FilterIntoLongSlow hands to RowMap::FilterInto for a
\* relational op, with is_nullable the template argument.
LongSlowPredicate(op, is_nullable, long_value, idx) ==
    CASE op = "kLt" -> IF is_nullable
                       THEN OptLt(SparseVectorGet(idx), long_value)
                       ELSE IntLt(SparseVectorGetNonNull(idx), long_value)
      [] op = "kEq" -> IF is_nullable
                       THEN OptEq(SparseVectorGet(idx), long_value)
                       ELSE SparseVectorGetNonNull(idx) = long_value
      [] op = "kGt" -> IF is_nullable
                       THEN OptGt(SparseVectorGet(idx), long_value)
                       ELSE IntGt(SparseVectorGetNonNull(idx), long_value)
      [] op = "kNe" -> IF is_nullable
                       THEN SparseVectorGetNonNull(idx) # long_value
                       ELSE OptNe(SparseVectorGet(idx), long_value)
      [] op = "kLe" -> IF is_nullable
                       THEN IntLe(SparseVectorGetNonNull(idx), long_value)
                       ELSE OptLe(SparseVectorGet(idx), long_value)
      [] op = "kGe" -> IF is_nullable
                       THEN IntGe(SparseVectorGetNonNull(idx), long_value)
                       ELSE OptGe(SparseVectorGet(idx), long_value)

\* The arm of the predicate for op reads the slot through GetNonNull.
LongSlowReadsNonNull(op, is_nullable) ==
    CASE op \in {"kLt", "kEq", "kGt"} -> ~is_nullable
      [] op \in {"kNe", "kLe", "kGe"} -> is_nullable
      [] OTHER -> FALSE

FilterIntoLongSlow(op, is_nullable, value, m) ==
    CASE op = "kIsNull" ->
           IF is_nullable
           THEN RowMapFilterInto(row_map, m, {row \in SeqRange(row_map) : ~SparseVectorGet(row).has_value})
           ELSE RowMapIntersect(m, RowMapEmpty)
      [] op = "kIsNotNull" ->
           IF is_nullable
           THEN RowMapFilterInto(row_map, m, {row \in SeqRange(row_map) : SparseVectorGet(row).has_value})
           ELSE m
      [] op = "kLike" -> RowMapIntersect(m, RowMapEmpty)
      [] OTHER ->
           RowMapFilterInto(row_map, m,
               {idx \in SeqRange(row_map) : LongSlowPredicate(op, is_nullable, value.long_value, idx)})

FilterIntoStringSlow(op, value, m) ==
    LET str_value == value.string_value
    IN  CASE op = "kIsNull" ->
               RowMapFilterInto(row_map, m, {row \in SeqRange(row_map) : GetStringPoolStringAtIdx(row).null})
          [] op = "kIsNotNull" ->
               RowMapFilterInto(row_map, m, {row \in SeqRange(row_map) : ~GetStringPoolStringAtIdx(row).null})
          [] op = "kLt" ->
               RowMapFilterInto(row_map, m, {idx \in SeqRange(row_map) : ViewLt(GetStringPoolStringAtIdx(idx), str_value)})
          [] op = "kEq" ->
               RowMapFilterInto(row_map, m, {idx \in SeqRange(row_map) : ViewEq(GetStringPoolStringAtIdx(idx), str_value)})
          [] op = "kGt" ->
               RowMapFilterInto(row_map, m, {idx \in SeqRange(row_map) : ViewGt(GetStringPoolStringAtIdx(idx), str_value)})
          [] op = "kNe" ->
               RowMapFilterInto(row_map, m, {idx \in SeqRange(row_map) : ViewNe(GetStringPoolStringAtIdx(idx), str_value)})
          [] op = "kLe" ->
               RowMapFilterInto(row_map, m, {idx \in SeqRange(row_map) : ViewLe(GetStringPoolStringAtIdx(idx), str_value)})
          [] op = "kGe" ->
               RowMapFilterInto(row_map, m, {idx \in SeqRange(row_map) : ViewGe(GetStringPoolStringAtIdx(idx), str_value)})
          [] op = "kLike" -> m

FilterIntoIdSlow(op, value, m) ==
    LET id_value == static_cast_uint32(value.long_value)
    IN  CASE op = "kIsNull" -> RowMapFilterInto(row_map, m, {idx \in SeqRange(row_map) : FALSE})
          [] op = "kIsNotNull" -> RowMapFilterInto(row_map, m, {idx \in SeqRange(row_map) : TRUE})
          [] op = "kLt" -> RowMapFilterInto(row_map, m, {idx \in SeqRange(row_map) : IntLt(ToInt(idx), id_value)})
          [] op = "kEq" -> RowMapFilterInto(row_map, m, {idx \in SeqRange(row_map) : ToInt(idx) = id_value})
          [] op = "kGt" -> RowMapFilterInto(row_map, m, {idx \in SeqRange(row_map) : IntGt(ToInt(idx), id_value)})
          [] op = "kNe" -> RowMapFilterInto(row_map, m, {idx \in SeqRange(row_map) : ToInt(idx) # id_value})
          [] op = "kLe" -> RowMapFilterInto(row_map, m, {idx \in SeqRange(row_map) : IntLe(ToInt(idx), id_value)})
          [] op = "kGe" -> RowMapFilterInto(row_map, m, {idx \in SeqRange(row_map) : IntGe(ToInt(idx), id_value)})
          [] op = "kLike" -> RowMapIntersect(m, RowMapEmpty)

\* The switch on type_ that ends FilterInto.
FilterIntoSlow(op, value, m) ==
    CASE type_ \in {"kInt32", "kUint32", "kInt64"} -> FilterIntoLongSlow(op, IsNullable, value, m)
      [] type_ = "kString" -> FilterIntoStringSlow(op, value, m)
      [] type_ = "kId" -> FilterIntoIdSlow(op, value, m)

\* Which of the three parts of FilterInto handles (op, value).
FilterIntoPath(op, value) ==
    IF IsId /\ op = "kEq" THEN "id_eq"
    ELSE IF IsSorted /\ value.type = type /\ op \in SortedOps THEN "sorted"
    ELSE "slow"

\* The RowMap FilterInto(op, value, &m) leaves in m.
FilterIntoResult(op, value, m) ==
    IF IsId /\ op = "kEq"
    THEN FilterIntoIdEq(value, m)
    ELSE IF IsSorted /\ value.type = type /\ op \in SortedOps
         THEN FilterIntoSorted(op, value, m)
         ELSE FilterIntoSlow(op, value, m)

\* FilterInto(op, value, &m) reads a null slot through GetNonNull.
FilterIntoFault(op, value, m) ==
    /\ type_ \in {"kInt32", "kUint32", "kInt64"}
    /\ LongSlowReadsNonNull(op, IsNullable)
    /\ FilterIntoPath(op, value) = "slow"
    /\ \E i \in 1..Len(m) : NullSlot(RowMapGet(row_map, m[i]))

-----------------------------------------------------------------------------
(* Column::StableSort *)

\* StableSortCmp with <= where the comparator has <.
StableSortCmp_NotStrict(desc, a_idx, b_idx) ==
    CASE type_ \in {"kInt32", "kUint32", "kInt64"} ->
           IF IsNullable
           THEN IF desc
                THEN ~OptOptLt(SparseVectorGet(a_idx), SparseVectorGet(b_idx))
                ELSE ~OptOptLt(SparseVectorGet(b_idx), SparseVectorGet(a_idx))
           ELSE IF desc
                THEN IntLe(SparseVectorGetNonNull(b_idx), SparseVectorGetNonNull(a_idx))
                ELSE IntLe(SparseVectorGetNonNull(a_idx), SparseVectorGetNonNull(b_idx))
      [] type_ = "kString" ->
           IF desc
           THEN ViewLe(GetStringPoolStringAtIdx(b_idx), GetStringPoolStringAtIdx(a_idx))
           ELSE ViewLe(GetStringPoolStringAtIdx(a_idx), GetStringPoolStringAtIdx(b_idx))
      [] type_ = "kId" ->
           IF desc THEN b_idx <= a_idx ELSE a_idx <= b_idx

\* StableSortCmp with the empty optional above every value.
StableSortCmp_NullLast(desc, a_idx, b_idx) ==
    CASE type_ \in {"kInt32", "kUint32", "kInt64"} ->
           IF IsNullable
           THEN LET a_val == SparseVectorGet(IF desc THEN b_idx ELSE a_idx)
                    b_val == SparseVectorGet(IF desc THEN a_idx ELSE b_idx)
                IN  a_val.has_value
                       /\ (b_val.has_value => IntLt(a_val.value, b_val.value))
           ELSE IF desc
                THEN IntLt(SparseVectorGetNonNull(b_idx), SparseVectorGetNonNull(a_idx))
                ELSE IntLt(SparseVectorGetNonNull(a_idx), SparseVectorGetNonNull(b_idx))
      [] type_ = "kString" ->
           IF desc
           THEN ViewLt(GetStringPoolStringAtIdx(b_idx), GetStringPoolStringAtIdx(a_idx))
           ELSE ViewLt(GetStringPoolStringAtIdx(a_idx), GetStringPoolStringAtIdx(b_idx))
      [] type_ = "kId" ->
           IF desc THEN b_idx < a_idx ELSE a_idx < b_idx

\* StableSortCmp with desc negating the result where the comparator swaps
\* the operands.
StableSortCmp_Negated(desc, a_idx, b_idx) ==
    CASE type_ \in {"kInt32", "kUint32", "kInt64"} ->
           IF IsNullable
           THEN IF desc
                THEN ~OptOptLt(SparseVectorGet(a_idx), SparseVectorGet(b_idx))
                ELSE OptOptLt(SparseVectorGet(a_idx), SparseVectorGet(b_idx))
           ELSE IF desc
                THEN ~IntLt(SparseVectorGetNonNull(a_idx), SparseVectorGetNonNull(b_idx))
                ELSE IntLt(SparseVectorGetNonNull(a_idx), SparseVectorGetNonNull(b_idx))
      [] type_ = "kString" ->
           IF desc
           THEN ~ViewLt(GetStringPoolStringAtIdx(a_idx), GetStringPoolStringAtIdx(b_idx))
           ELSE ViewLt(GetStringPoolStringAtIdx(a_idx), GetStringPoolStringAtIdx(b_idx))
      [] type_ = "kId" ->
           IF desc THEN ~(a_idx < b_idx) ELSE a_idx < b_idx

\* The comparator StableSort hands to RowMap::StableSort.
StableSortCmp(desc, a_idx, b_idx) ==
    CASE type_ \in {"kInt32", "kUint32", "kInt64"} ->
           IF IsNullable
           THEN IF desc
                THEN OptOptLt(SparseVectorGet(b_idx), SparseVectorGet(a_idx))
                ELSE OptOptLt(SparseVectorGet(a_idx), SparseVectorGet(b_idx))
           ELSE IF desc
                THEN IntLt(SparseVectorGetNonNull(b_idx), SparseVectorGetNonNull(a_idx))
                ELSE IntLt(SparseVectorGetNonNull(a_idx), SparseVectorGetNonNull(b_idx))
      [] type_ = "kString" ->
           IF desc
           THEN ViewLt(GetStringPoolStringAtIdx(b_idx), GetStringPoolStringAtIdx(a_idx))
           ELSE ViewLt(GetStringPoolStringAtIdx(a_idx), GetStringPoolStringAtIdx(b_idx))
      [] type_ = "kId" ->
           IF desc THEN b_idx < a_idx ELSE a_idx < b_idx

Front(s) == SubSeq(s, 1, Len(s) - 1)

Last(s) == s[Len(s)]

\* One step of a stable sort: x, which followed every entry of the sorted
\* s, moves left past the entries it is smaller than.
RECURSIVE StableInsert(_, _, _)
StableInsert(desc, s, x) ==
    IF s = << >> THEN <<x>>
    ELSE IF StableSortCmp(desc, RowMapGet(row_map, x), RowMapGet(row_map, Last(s)))
         THEN Append(StableInsert(desc, Front(s), x), Last(s))
         ELSE Append(s, x)

\* row_map().StableSort(out, cmp): cmp sees the slot indices the entries
\* of out project to.
RECURSIVE RowMapStableSort(_, _)
RowMapStableSort(desc, o) ==
    IF o = << >> THEN << >>
    ELSE StableInsert(desc, RowMapStableSort(desc, Front(o)), Last(o))

StableSortResult(desc, o) == RowMapStableSort(desc, o)

-----------------------------------------------------------------------------
(* Columns and arguments the model ranges over *)

Slots == 0..(StorageSize - 1)

NumericTypes == {"kInt32", "kUint32", "kInt64"}

\* The values a non-null cell of a column of type t holds.
CellValues(t) ==
    CASE t = "kInt32" -> {ToInt(-1), ToInt(1)}
      [] t = "kUint32" -> {ToInt(1), ToInt(2)}
      [] t = "kInt64" -> {ToInt(1), TwoTo32Plus1}
      [] t = "kString" -> StringIds
      [] t = "kId" -> {}

\* The slots of a numeric column may be null unless kNonNull is set; a
\* string column keeps an id in every slot (id 0 is the null string).
Cells(t, f) ==
    {make_optional(v) : v \in CellValues(t)}
        \cup (IF t \in NumericTypes /\ (f \div kNonNull) % 2 = 0 THEN {NullCell} ELSE {})

\* The order kSorted promises of the stored cells.
CellLt(t, a, b) ==
    IF t = "kString"
    THEN ViewLt(StringPoolGet(a.value), StringPoolGet(b.value))
    ELSE OptOptLt(a, b)

SortedStorage(t, sv) == \A i, j \in Slots : i < j => ~CellLt(t, sv[j], sv[i])

Storages(t, f) ==
    IF t = "kId" THEN {<< >>}
    ELSE {sv \in [Slots -> Cells(t, f)] : (f \div kSorted) % 2 # 0 => SortedStorage(t, sv)}

\* An id column is sorted and non-null.
Flags(t) == IF t = "kId" THEN {kSorted + kNonNull} ELSE {kNoFlag, kSorted, kNonNull, kSorted + kNonNull}

\* The strictly increasing sequences of slot indices.
IncreasingSeqs ==
    {s \in UNION {[1..n -> Slots] : n \in 0..StorageSize} :
        \A i, j \in 1..Len(s) : i < j => s[i] < s[j]}

\* The null slots; only those the RowMap shows are ever read.
NullSlots(sv) == {i \in DOMAIN sv : ~sv[i].has_value}

LongValues == {ToInt(-1), ToInt(1), TwoTo32Plus1}

SqlValues ==
    {SqlNull} \cup {SqlLong(v) : v \in LongValues}
              \cup {SqlString(StringPoolGet(id)) : id \in StringIds \ {0}}

\* The values FilterInto reads through the union member of the column's
\* type; the null checks take the null value, and the id equality checks
\* the type before it reads.
FilterArgument(op, value) ==
    IF op \in {"kIsNull", "kIsNotNull"} THEN value.type = "kNull"
    ELSE IF IsId /\ op = "kEq" THEN TRUE
    ELSE value.type = type

NoCall == [name |-> "none", op |-> "none", value |-> SqlNull, desc |-> FALSE]

NoRet == [opt |-> nullopt, value |-> SqlNull]

InitColumn ==
    /\ type_ \in ColumnType
    /\ flags_ \in Flags(type_)
    /\ sparse_vector_ \in Storages(type_, flags_)
    /\ row_map \in IncreasingSeqs
    /\ undef \in [NullSlots(sparse_vector_) \cap SeqRange(row_map) -> CellValues(type_)]

\* A query starts from the RowMap of all rows of the table.
Init ==
    /\ InitColumn
    /\ rm = RowMapRange(0, RowMapSize(row_map))
    /\ out = << >>
    /\ ret = NoRet
    /\ last = NoCall
    /\ fault = FALSE
    /\ pc = "ready"
    /\ order_by = << >>

\* Get(row)
GetCall(row) ==
    /\ pc = "ready"
    /\ row \in Rows
    /\ ret' = [opt |-> nullopt, value |-> Get(row)]
    /\ last' = [name |-> "Get", op |-> "none", value |-> SqlLong(ToInt(row)), desc |-> FALSE]
    /\ fault' = FALSE
    /\ UNCHANGED <<column, rm, out, pc, order_by>>

\* IndexOf(value)
IndexOfCall(value) ==
    /\ pc = "ready"
    /\ ret' = [opt |-> IndexOf(value), value |-> SqlNull]
    /\ last' = [name |-> "IndexOf", op |-> "none", value |-> value, desc |-> FALSE]
    /\ fault' = FALSE
    /\ UNCHANGED <<column, rm, out, pc, order_by>>

\* FilterInto(op, value, &rm): the call returns with rm narrowed.
FilterIntoReturn(op, value) ==
    /\ pc = "ready"
    /\ FilterArgument(op, value)
    /\ rm' = FilterIntoResult(op, value, rm)
    /\ fault' = FilterIntoFault(op, value, rm)
    /\ last' = [name |-> "FilterInto", op |-> op, value |-> value, desc |-> FALSE]
    /\ ret' = NoRet
    /\ UNCHANGED <<column, out, pc, order_by>>

\* FilterInto(op, value, &rm): the check of GetNonNull's precondition
\* stops the process.
FilterIntoAbort(op, value) ==
    /\ pc = "ready"
    /\ FilterArgument(op, value)
    /\ FilterIntoFault(op, value, rm)
    /\ pc' = "aborted"
    /\ fault' = TRUE
    /\ last' = [name |-> "FilterInto", op |-> op, value |-> value, desc |-> FALSE]
    /\ ret' = NoRet
    /\ UNCHANGED <<column, rm, out, order_by>>

FilterInto(op, value) == FilterIntoReturn(op, value) \/ FilterIntoAbort(op, value)

\* StableSort with the descending branch sorting ascending.
StableSort_AscOnly(desc) ==
    /\ pc = "ready"
    /\ out' = StableSortResult(FALSE, out)
    /\ last' = [name |-> "StableSort", op |-> "none", value |-> SqlNull, desc |-> desc]
    /\ fault' = FALSE
    /\ ret' = NoRet
    /\ UNCHANGED <<column, rm, pc, order_by>>

\* StableSort(desc, &out)
StableSort(desc) ==
    /\ pc = "ready"
    /\ out' = StableSortResult(desc, out)
    /\ last' = [name |-> "StableSort", op |-> "none", value |-> SqlNull, desc |-> desc]
    /\ fault' = FALSE
    /\ ret' = NoRet
    /\ UNCHANGED <<column, rm, pc, order_by>>

\* The column never changes, so its operations do not interfere: the
\* queries that filter, those that look up and those that sort are
\* explored apart.
Next == \E op \in FilterOp, value \in SqlValues : FilterInto(op, value)

Spec == Init /\ [][Next]_vars

NextLookup ==
    \/ \E row \in Slots : GetCall(row)
    \/ \E value \in SqlValues : IndexOfCall(value)

SpecLookup == Init /\ [][NextLookup]_vars

\* The index vectors over the rows of the table, of length at most MaxOut.
IndexVectors == UNION {[1..n -> Rows] : n \in 0..MaxOut}

InitSort ==
    /\ InitColumn
    /\ rm = RowMapRange(0, RowMapSize(row_map))
    /\ out \in IndexVectors
    /\ ret = NoRet
    /\ last = NoCall
    /\ fault = FALSE
    /\ pc = "ready"
    /\ order_by = << >>

NextSort == \E desc \in BOOLEAN : StableSort(desc)

SpecSort == InitSort /\ [][NextSort]_vars

\* The keys and the direction of the term the query has just sorted by.
FinishedTerm == [key |-> [r \in Rows |-> Get(r)], desc |-> last.desc]

\* An ORDER BY query starts from the index vector [0..n) of the table's
\* rows and its least significant term.
InitOrderBy ==
    /\ InitColumn
    /\ rm = RowMapRange(0, RowMapSize(row_map))
    /\ out = RowMapRange(0, RowMapSize(row_map))
    /\ ret = NoRet
    /\ last = NoCall
    /\ fault = FALSE
    /\ pc = "ready"
    /\ order_by = << >>

\* The query calls StableSort once on the column of the term it is at.
OrderBySort(desc) ==
    /\ last.name # "StableSort"
    /\ StableSort(desc)

\* The query moves to the next more significant term: another column of
\* the same table, seen through the same RowMap.
NextColumn ==
    /\ pc = "ready"
    /\ last.name = "StableSort"
    /\ Len(order_by) + 1 < MaxTerms
    /\ order_by' = Append(order_by, FinishedTerm)
    /\ type_' \in ColumnType
    /\ flags_' \in Flags(type_')
    /\ sparse_vector_' \in Storages(type_', flags_')
    /\ undef' \in [NullSlots(sparse_vector_') \cap SeqRange(row_map) -> CellValues(type_')]
    /\ last' = [name |-> "NextColumn", op |-> "none", value |-> SqlNull, desc |-> FALSE]
    /\ UNCHANGED <<row_map, rm, out, ret, fault, pc>>

NextOrderBy ==
    \/ \E desc \in BOOLEAN : OrderBySort(desc)
    \/ NextColumn

SpecOrderBy == InitOrderBy /\ [][NextOrderBy]_vars

-----------------------------------------------------------------------------
(* Properties *)

RelationalOps == {"kLt", "kLe", "kEq", "kNe", "kGt", "kGe"}

\* The last step was a call of FilterInto that returned.
FilterReturned == last.name = "FilterInto" /\ pc = "ready"

\* What op asks of a cell next to value, null being below every non-null
\* value and equal to none.  kLike is left to a pattern engine.
OpHolds(op, cell, value) ==
    CASE op = "kEq" -> SqlValueEq(cell, value)
      [] op = "kNe" -> ~SqlValueEq(cell, value)
      [] op = "kLt" -> SqlValueLt(cell, value)
      [] op = "kLe" -> ~SqlValueLt(value, cell)
      [] op = "kGt" -> SqlValueLt(value, cell)
      [] op = "kGe" -> ~SqlValueLt(cell, value)
      [] op = "kIsNull" -> cell.type = "kNull"
      [] op = "kIsNotNull" -> cell.type # "kNull"
      [] op = "kLike" -> TRUE

\* The rows of m whose cell satisfies op next to value.
Qualifying(op, value, m) == SelectSeq(m, LAMBDA k : OpHolds(op, Get(k), value))

\* a holds entries of b in the order b has them.
RECURSIVE IsSubsequence(_, _)
IsSubsequence(a, b) ==
    IF a = << >> THEN TRUE
    ELSE IF b = << >> THEN FALSE
    ELSE IF Head(a) = Head(b) THEN IsSubsequence(Tail(a), Tail(b))
    ELSE IsSubsequence(a, Tail(b))

\* C1: after FilterInto(op, value, rm) every row left in rm satisfies the
\* predicate of op on Get(row) next to value, whichever path ran.
C1_SurvivorsSatisfyOp ==
    FilterReturned =>
        \A i \in 1..Len(rm) : OpHolds(last.op, Get(rm[i]), last.value)

\* C2: on the slow path of a numeric column, a relational FilterInto leaves
\* exactly the rows of the input rm whose cell satisfies the comparison,
\* a null cell being below every value.
C2_LongSlowExact ==
    [][(/\ pc' = "ready"
        /\ last'.name = "FilterInto"
        /\ type_ \in NumericTypes
        /\ last'.op \in RelationalOps
        /\ FilterIntoPath(last'.op, last'.value) = "slow")
       => rm' = Qualifying(last'.op, last'.value, rm)]_vars

\* C3: a row whose cell is null is never left in rm by a relational
\* FilterInto with a non-null value.
C3_NullNeverKept ==
    (/\ FilterReturned
     /\ last.op \in RelationalOps
     /\ last.value.type # "kNull")
    => \A i \in 1..Len(rm) : Get(rm[i]).type # "kNull"

\* C4: no operation reads a null slot through GetNonNull.
C4_GetNonNullOnlyOnNonNull == fault = FALSE

\* C5: the RowMap the binary search on a sorted column leaves is the one
\* the slow path leaves for the same column, op, value and rm.
C5_SortedEqualsSlow ==
    [][(/\ pc' = "ready"
        /\ last'.name = "FilterInto"
        /\ FilterIntoPath(last'.op, last'.value) = "sorted")
       => rm' = FilterIntoSlow(last'.op, last'.value, rm)]_vars

\* C6: the rows FilterInto leaves in rm are rows rm had, in the order rm
\* had them.
C6_Monotone ==
    [][last'.name = "FilterInto" => IsSubsequence(rm', rm)]_vars

\* C6 witness: a FilterInto dropped some rows of a table and kept others.
C6_Witness ==
    /\ FilterReturned
    /\ rm # << >>
    /\ Len(rm) < RowMapSize(row_map)

\* C7: FilterInto applied again with the same op and value changes nothing.
C7_Idempotent ==
    FilterReturned => FilterIntoResult(last.op, last.value, rm) = rm

\* C7 witness: the binary search on a sorted column narrowed rm to some
\* but not all rows.
C7_Witness ==
    /\ FilterReturned
    /\ FilterIntoPath(last.op, last.value) = "sorted"
    /\ rm # << >>
    /\ Len(rm) < RowMapSize(row_map)

\* C8: on an id column IndexOf(Long(v)) returns k exactly if
\* row_map.Get(k) = v, none if no row has slot index v, and none for a
\* value that is not a Long.
C8_IdIndexOf ==
    (last.name = "IndexOf" /\ IsId) =>
        IF last.value.type # "kLong"
        THEN ret.opt = nullopt
        ELSE /\ \A k \in Rows :
                   ret.opt = make_optional(k)
                       <=> ToInt(RowMapGet(row_map, k)) = last.value.long_value
             /\ (\A k \in Rows : ToInt(RowMapGet(row_map, k)) # last.value.long_value)
                    => ret.opt = nullopt

\* C9: on an id column FilterInto(kEq, value, rm) leaves exactly the rows
\* of the input rm whose id equals value.
C9_IdEqExact ==
    [][(/\ pc' = "ready"
        /\ last'.name = "FilterInto"
        /\ IsId
        /\ last'.op = "kEq")
       => rm' = Qualifying("kEq", last'.value, rm)]_vars

Count(s, r) == Cardinality({i \in 1..Len(s) : s[i] = r})

\* The rows whose key in the column is the key of row r.
SameKey(s, r) == SelectSeq(s, LAMBDA x : Get(x) = Get(r))

\* C10: StableSort leaves a permutation of its input in which the entries
\* of equal key keep their order.
C10_PermutationStable ==
    [][last'.name = "StableSort" =>
        /\ Len(out') = Len(out)
        /\ \A r \in Rows : Count(out', r) = Count(out, r)
        /\ \A r \in Rows : SameKey(out', r) = SameKey(out, r)]_vars

\* C10 witness: a descending sort moved a row to the front past two
\* different rows of one key.
C10_Witness ==
    /\ last.name = "StableSort"
    /\ last.desc
    /\ Len(out) = MaxOut
    /\ \E i, j, k \in 1..Len(out) :
          /\ i < j /\ j < k
          /\ out[j] # out[k]
          /\ Get(out[j]) = Get(out[k])
          /\ Get(out[i]) # Get(out[j])
          /\ out[i] > out[k]

\* The column's ordering of the keys of two rows: a null key is below
\* every other key.
KeyLt(a, b) == SqlValueLt(Get(a), Get(b))

\* C11: after an ascending StableSort the keys of consecutive entries of
\* out never decrease and the null rows come first; after a descending
\* StableSort they never increase and the null rows come last.
C11_SortedByKey ==
    last.name = "StableSort" =>
        /\ \A i \in 1..(Len(out) - 1) :
              IF last.desc THEN ~KeyLt(out[i], out[i + 1])
                           ELSE ~KeyLt(out[i + 1], out[i])
        /\ \A i, j \in 1..Len(out) :
              (i < j /\ Get(out[IF last.desc THEN i ELSE j]).type = "kNull")
                  => Get(out[IF last.desc THEN j ELSE i]).type = "kNull"

\* C11 witness: an ascending sort of a nullable numeric column left a null
\* row of higher index ahead of two rows of one key in their index order.
C11_Witness ==
    /\ last.name = "StableSort"
    /\ ~last.desc
    /\ type_ \in NumericTypes
    /\ Len(out) = MaxOut
    /\ Get(out[1]).type = "kNull"
    /\ \E i \in 2..(Len(out) - 1) :
          /\ Get(out[i]).type # "kNull"
          /\ Get(out[i]) = Get(out[i + 1])
          /\ out[i] < out[i + 1]
          /\ out[i + 1] < out[1]

\* The length of the run of entries at the head of s that have the key
\* of s[1].
RECURSIVE HeadRun(_, _)
HeadRun(s, n) ==
    IF n < Len(s) /\ Get(s[n + 1]) = Get(s[1]) THEN HeadRun(s, n + 1) ELSE n

\* The reverse-stable of a sorted vector: its runs of equal keys in
\* reversed order, each run in its own order.
RECURSIVE ReverseStable(_)
ReverseStable(s) ==
    IF s = << >> THEN << >>
    ELSE ReverseStable(SubSeq(s, HeadRun(s, 1) + 1, Len(s)))
             \o SubSeq(s, 1, HeadRun(s, 1))

\* The element-wise reversal of a vector.
Reversed(s) == [i \in 1..Len(s) |-> s[Len(s) + 1 - i]]

\* C12: a descending StableSort leaves the reverse-stable of what the
\* ascending StableSort makes of the same input: the groups of equal keys
\* in reversed key order, each group in its input order.
C12_DescIsReverseStable ==
    [][(last'.name = "StableSort" /\ last'.desc)
          => out' = ReverseStable(StableSortResult(FALSE, out))]_vars

\* C12 witness: a descending sort left two different rows of one key next
\* to a row of another key, where reversing the ascending result of the
\* same vector would swap the two.
C12_Witness ==
    /\ last.name = "StableSort"
    /\ last.desc
    /\ Len(out) = MaxOut
    /\ \E i \in 1..(Len(out) - 1) :
          /\ out[i] # out[i + 1]
          /\ Get(out[i]) = Get(out[i + 1])
    /\ \E i \in 1..(Len(out) - 1) : KeyLt(out[i + 1], out[i])
    /\ StableSortResult(TRUE, out) # Reversed(StableSortResult(FALSE, out))

\* Row a orders strictly before row b under one term.
TermLt(t, a, b) ==
    IF t.desc THEN SqlValueLt(t.key[b], t.key[a])
              ELSE SqlValueLt(t.key[a], t.key[b])

\* Row a comes before row b in the lexicographic order of the terms, most
\* significant first; rows equal on every term go by their index.
RECURSIVE RowBefore(_, _, _)
RowBefore(terms, a, b) ==
    IF terms = << >> THEN a <= b
    ELSE IF TermLt(Head(terms), a, b) THEN TRUE
    ELSE IF TermLt(Head(terms), b, a) THEN FALSE
    ELSE RowBefore(Tail(terms), a, b)

\* The terms sorted by so far, most significant first.
TermsBySignificance == <<FinishedTerm>> \o Reversed(order_by)

\* C13: once the query has called StableSort for its terms from the least
\* significant to the most significant, out holds every row of [0..n) once,
\* ordered lexicographically by the terms' keys, each term in its own
\* direction, and rows equal on every term are in ascending index order.
C13_LexicographicOrder ==
    last.name = "StableSort" =>
        /\ Len(out) = RowMapSize(row_map)
        /\ \A r \in Rows : Count(out, r) = 1
        /\ \A i, j \in 1..Len(out) :
              i < j => (out[i] # out[j] /\ RowBefore(TermsBySignificance, out[i], out[j]))

\* C13 witness: two terms of opposite directions are sorted; the most
\* significant term separates two rows against their indices, and two rows
\* that tie on it are ordered by the other term against their indices.
C13_Witness ==
    /\ last.name = "StableSort"
    /\ Len(order_by) = MaxTerms - 1
    /\ last.desc # order_by[1].desc
    /\ \E i, j \in 1..Len(out) :
          /\ i < j
          /\ out[i] > out[j]
          /\ Get(out[i]) # Get(out[j])
    /\ \E i, j \in 1..Len(out) :
          /\ i < j
          /\ out[i] > out[j]
          /\ Get(out[i]) = Get(out[j])
          /\ order_by[1].key[out[i]] # order_by[1].key[out[j]]

====
